---- MODULE Spec2Model ----
(***************************************************************************)
(* FM-index read mapper: suffix array construction by induced sorting      *)
(* (sais.py), Burrows-Wheeler transform and the C/O/reverse-O tables       *)
(* (bwt.py), the D table and the bounded-edit backwards search written as  *)
(* an explicit state machine (bwt.py, approx_searcher_from_tables.search). *)
(*                                                                         *)
(* Python arrays are modelled as sequences; index i of the program is      *)
(* element i + 1 of the sequence (At, PyAt, Upd).  Characters of the       *)
(* source text are the integers of Letters (1 = 'a', 2 = 'b', ...), the    *)
(* alphabet maps them to dense codes 1..sigma-1 and 0 is the sentinel.     *)
(***************************************************************************)
EXTENDS Integers, Sequences, FiniteSets, TLC

\* ------------------------------------------------------------------ bounds
\* letters a reference text is written in, and one letter no text contains
Letters == {1, 2}
Foreign == 3
MaxTextLen == 3
MaxPatLen == 2
MaxEdits == 2
MaxSaisLen == 7
\* the edit budget of the searches run under fair scheduling
FairEdits == 1
\* two searches pulled in turn: the references, the patterns, the budget
ParTexts == {<<1, 2>>, <<2, 1, 2>>}
ParPatterns == {<<2>>, <<1, 2>>}
ParEdits == 1
\* searches of longer patterns: the pattern length and the budget
LongPatLen == 3
LongEdits == 1
\* equal_lms run alone: the length of the texts
MaxLmsLen == 6
\* the table builders run alone: the BWT strings and the alphabet sizes
MaxBwtLen == 4
MaxAsize == 4
\* the codec run alone: the edit lists and the lengths of their runs
MaxEditsLen == 4
MaxRun == 10
\* the BWT of "aabca", over four symbols
BwtExamples == {<<1, 3, 0, 1, 1, 2>>}

\* ------------------------------------------------------- array primitives
UNDEFINED == -1

At(s, i) == s[i + 1]

\* Python indexing: a negative index counts from the end of the array
PyAt(s, i) == IF i < 0 THEN s[Len(s) + i + 1] ELSE s[i + 1]

Upd(s, i, v) == [s EXCEPT ![i + 1] = v]

\* a function with domain 1..n as a sequence value (a tuple, so that At, Upd
\* and SubSeq all see the same elements)
AsSeq(f) == SubSeq(f, 1, Len(f))

Fill(n, v) == AsSeq([i \in 1..n |-> v])

Reverse(s) == AsSeq([i \in 1..Len(s) |-> s[Len(s) + 1 - i]])

\* all sequences over S of length lo..hi
SeqsOf(S, lo, hi) == UNION {[1..n -> S] : n \in lo..hi}

\* ---------------------------------------------------------------- alphabet
\* The Alphabet of a text: its distinct letters in sorted order; letter c has
\* code 1 + (number of smaller letters of the text), 0 is the sentinel.
Alphabet(x) == {x[i] : i \in 1..Len(x)}

\* len(alpha): the number of codes, the sentinel included
AlphaLen(alpha) == Cardinality(alpha) + 1

MapLetter(alpha, c) == Cardinality({d \in alpha : d < c}) + 1

\* alpha.map raises KeyError on a letter that is not in the alphabet
CanMap(alpha, p_) == \A i \in 1..Len(p_) : p_[i] \in alpha

AlphaMap(alpha, p_) ==
    AsSeq([i \in 1..Len(p_) |-> MapLetter(alpha, p_[i])])

mapped_string_with_sentinel(x) == Append(AlphaMap(Alphabet(x), x), 0)

\* -------------------------------------------------------------------- SAIS
\* Counter(x): occurrences of each code 0..asize-1 (0 for absent ones)
Counter(x, asize) ==
    [a \in 0..(asize - 1) |-> Cardinality({i \in 1..Len(x) : x[i] = a})]

\* classify_sl: loop body for i = len(x)-2 .. 0
RECURSIVE classify_loop(_, _, _)
classify_loop(is_s, x, i) ==
    IF i < 0 THEN is_s
    ELSE classify_loop(
            Upd(is_s, i, At(x, i) < At(x, i + 1)
                         \/ (At(x, i) = At(x, i + 1) /\ At(is_s, i + 1))),
            x, i - 1)

classify_sl(is_s, x) ==
    classify_loop(Upd(is_s, Len(x) - 1, TRUE), x, Len(x) - 2)

\* is position i the start of an LMS substring (is_s[i] and not is_s[i-1])
is_lms(is_s, i) == PyAt(is_s, i) /\ ~PyAt(is_s, i - 1)

RECURSIVE buckets_loop(_, _, _, _)
buckets_loop(buckets, counts, asize, a) ==
    IF a > asize THEN buckets
    ELSE buckets_loop(Upd(buckets, a, At(buckets, a - 1) + counts[a - 1]),
                      counts, asize, a + 1)

compute_buckets(counts, asize) ==
    buckets_loop(Fill(asize + 1, 0), counts, asize, 1)

\* bucket_lms: st = [sa, buckets]; loop over i = 0 .. len(x)-1
RECURSIVE bucket_lms_loop(_, _, _, _)
bucket_lms_loop(st, x, is_s, i) ==
    IF i >= Len(x) THEN st
    ELSE IF is_lms(is_s, i)
         THEN LET b == At(st.buckets, At(x, i) + 1) - 1
              IN bucket_lms_loop(
                    [sa |-> Upd(st.sa, b, i),
                     buckets |-> Upd(st.buckets, At(x, i) + 1, b)],
                    x, is_s, i + 1)
         ELSE bucket_lms_loop(st, x, is_s, i + 1)

bucket_lms(x, asize, sa, counts, is_s) ==
    bucket_lms_loop([sa |-> Fill(Len(sa), UNDEFINED),
                     buckets |-> compute_buckets(counts, asize)],
                    x, is_s, 0).sa

RECURSIVE induce_l_loop(_, _, _, _)
induce_l_loop(st, x, is_s, i) ==
    IF i >= Len(x) THEN st
    ELSE LET v == At(st.sa, i)
             j == v - 1
         IN IF v \in {0, UNDEFINED} \/ PyAt(is_s, j)
            THEN induce_l_loop(st, x, is_s, i + 1)
            ELSE LET b == At(st.buckets, PyAt(x, j))
                 IN induce_l_loop(
                       [sa |-> Upd(st.sa, b, j),
                        buckets |-> Upd(st.buckets, PyAt(x, j), b + 1)],
                       x, is_s, i + 1)

induce_l(x, asize, sa, counts, is_s) ==
    induce_l_loop([sa |-> sa, buckets |-> compute_buckets(counts, asize)],
                  x, is_s, 0).sa

RECURSIVE induce_s_loop(_, _, _, _)
induce_s_loop(st, x, is_s, i) ==
    IF i < 0 THEN st
    ELSE LET v == At(st.sa, i)
             j == v - 1
         IN IF v = 0 \/ ~PyAt(is_s, j)
            THEN induce_s_loop(st, x, is_s, i - 1)
            ELSE LET b == At(st.buckets, PyAt(x, j) + 1) - 1
                 IN induce_s_loop(
                       [sa |-> Upd(st.sa, b, j),
                        buckets |-> Upd(st.buckets, PyAt(x, j) + 1, b)],
                       x, is_s, i - 1)

induce_s(x, asize, sa, counts, is_s) ==
    induce_s_loop([sa |-> sa, buckets |-> compute_buckets(counts, asize)],
                  x, is_s, Len(x) - 1).sa

RECURSIVE equal_lms_loop(_, _, _, _, _)
equal_lms_loop(x, is_s, i, j, k) ==
    LET ik == i + k
        jk == j + k
        i_lms == is_lms(is_s, ik)
        j_lms == is_lms(is_s, jk)
    IN IF k > 0 /\ i_lms /\ j_lms THEN TRUE
       ELSE IF i_lms # j_lms \/ At(x, ik) # At(x, jk) THEN FALSE
       ELSE equal_lms_loop(x, is_s, i, j, k + 1)

\* a comparison of the first letters only
equal_lms_first(x, is_s, i, j) == At(x, i) = At(x, j)

equal_lms(x, is_s, i, j) ==
    IF i = j THEN TRUE ELSE equal_lms_loop(x, is_s, i, j, 0)

\* reduce_lms, first loop: compact the LMS positions to the front of sa
\* st = [sa, k]; idx walks the array, reading it as it is being written
RECURSIVE compact_lms_loop(_, _, _)
compact_lms_loop(st, is_s, idx) ==
    IF idx >= Len(st.sa) THEN st
    ELSE LET i == At(st.sa, idx)
         IN IF is_lms(is_s, i)
            THEN compact_lms_loop([sa |-> Upd(st.sa, st.k, i), k |-> st.k + 1],
                                  is_s, idx + 1)
            ELSE compact_lms_loop(st, is_s, idx + 1)

\* second loop: name the LMS substrings; st = [buffer, prev, letter]
RECURSIVE name_lms_loop(_, _, _, _, _)
name_lms_loop(st, x, is_s, compact, idx) ==
    IF idx >= Len(compact) THEN st
    ELSE LET j == At(compact, idx)
             letter == IF equal_lms(x, is_s, st.prev, j)
                       THEN st.letter ELSE st.letter + 1
         IN name_lms_loop(
               [buffer |-> Upd(st.buffer, j \div 2, letter),
                prev |-> j, letter |-> letter],
               x, is_s, compact, idx + 1)

\* third loop: compact the names to the front of the buffer, in place
RECURSIVE compact_names_loop(_, _)
compact_names_loop(st, idx) ==
    IF idx >= Len(st.buffer) THEN st
    ELSE LET i == At(st.buffer, idx)
         IN IF i # UNDEFINED
            THEN compact_names_loop(
                    [buffer |-> Upd(st.buffer, st.kk, i), kk |-> st.kk + 1],
                    idx + 1)
            ELSE compact_names_loop(st, idx + 1)

\* returns the whole array (compact ++ buffer), the number k of LMS
\* positions and the size of the reduced alphabet; the reduced string is
\* the view sa[k : 2k], the reduced suffix array the view sa[0 : k]
reduce_lms(x, sa, is_s) ==
    LET c == compact_lms_loop([sa |-> sa, k |-> 0], is_s, 0)
        k == c.k
        compact == SubSeq(c.sa, 1, k)
        named == name_lms_loop(
                    [buffer |-> Fill(Len(sa) - k, UNDEFINED),
                     prev |-> At(compact, 0), letter |-> 0],
                    x, is_s, compact, 0)
        packed == compact_names_loop([buffer |-> named.buffer, kk |-> 0], 0)
    IN [sa |-> compact \o packed.buffer, k |-> k,
        red_asize |-> named.letter + 1]

\* reverse_reduction on the whole array: offsets is the view sa[k : 2k],
\* red_sa the view sa[0 : k]
RECURSIVE offsets_loop(_, _, _, _, _)
offsets_loop(sa, x, is_s, k, st) ==
    \* st = [i, kk]
    IF st.i >= Len(x) THEN sa
    ELSE IF is_lms(is_s, st.i)
         THEN offsets_loop(Upd(sa, k + st.kk, st.i), x, is_s, k,
                           [i |-> st.i + 1, kk |-> st.kk + 1])
         ELSE offsets_loop(sa, x, is_s, k, [i |-> st.i + 1, kk |-> st.kk])

RECURSIVE place_lms_loop(_, _, _)
place_lms_loop(st, x, i) ==
    IF i < 0 THEN st
    ELSE LET j == At(st.sa, i)
             cleared == Upd(st.sa, i, UNDEFINED)
             b == At(st.buckets, PyAt(x, j) + 1) - 1
         IN place_lms_loop(
               [sa |-> Upd(cleared, b, j),
                buckets |-> Upd(st.buckets, PyAt(x, j) + 1, b)],
               x, i - 1)

reverse_reduction(x, asize, sa, k, counts, is_s) ==
    LET withOffsets == offsets_loop(sa, x, is_s, k, [i |-> 0, kk |-> 0])
        translated == AsSeq([i \in 1..Len(sa) |->
                         IF i <= k THEN At(withOffsets, k + withOffsets[i])
                         ELSE UNDEFINED])
    IN place_lms_loop([sa |-> translated,
                       buckets |-> compute_buckets(counts, asize)],
                      x, k - 1).sa

RECURSIVE base_case_loop(_, _, _)
base_case_loop(sa, x, i) ==
    IF i >= Len(x) THEN sa
    ELSE base_case_loop(Upd(sa, At(x, i), i), x, i + 1)

\* sais_rec, the recursive case up to reduce_lms: classification, the
\* first induced sort and the reduced problem ([sa, k, red_asize, is_s])
sais_reduce(x, sa, asize, is_s) ==
    LET cls == classify_sl(is_s, x)
        counts == Counter(x, asize)
        sa1 == bucket_lms(x, asize, sa, counts, cls)
        sa2 == induce_l(x, asize, sa1, counts, cls)
        sa3 == induce_s(x, asize, sa2, counts, cls)
        r == reduce_lms(x, sa3, cls)
    IN [sa |-> r.sa, k |-> r.k, red_asize |-> r.red_asize, is_s |-> cls]

\* sais_rec, the recursive case after the recursive call returned sub =
\* [sa, is_s] for the views red = sa[k : 2k] and red_sa = sa[0 : k]
sais_induce(x, asize, r, sub) ==
    LET counts == Counter(x, asize)
        sa4 == sub.sa \o SubSeq(r.sa, r.k + 1, Len(r.sa))
        cls2 == classify_sl(sub.is_s, x)
        sa5 == reverse_reduction(x, asize, sa4, r.k, counts, cls2)
        sa6 == induce_l(x, asize, sa5, counts, cls2)
        sa7 == induce_s(x, asize, sa6, counts, cls2)
    IN [sa |-> sa7, is_s |-> cls2]

\* sais_rec returns [sa, is_s]: the array it sorted into and the shared
\* classification bits as it leaves them
RECURSIVE sais_rec(_, _, _, _)
RECURSIVE sais_recurse(_, _, _)
sais_recurse(x, asize, r) ==
    sais_induce(x, asize, r,
                sais_rec(SubSeq(r.sa, r.k + 1, 2 * r.k), SubSeq(r.sa, 1, r.k),
                         r.red_asize, r.is_s))

sais_rec(x, sa, asize, is_s) ==
    IF Len(x) = asize
    THEN [sa |-> base_case_loop(sa, x, 0), is_s |-> is_s]
    ELSE sais_recurse(x, asize, sais_reduce(x, sa, asize, is_s))

\* bits is the content of the freshly allocated bitarray(len(x))
sais_alphabet(x, asize, bits) ==
    sais_rec(x, Fill(Len(x), 0), asize, bits).sa

sais(x, bits) ==
    sais_alphabet(mapped_string_with_sentinel(x), AlphaLen(Alphabet(x)), bits)

\* ---------------------------------------------------------- BWT and tables
\* the letter after the suffix instead of the one before it
bwt_of_next(x_, sa) ==
    AsSeq([i \in 1..Len(sa) |-> At(x_, (sa[i] + 1) % Len(x_))])

\* bwt[i] = x_[sa[i] - 1]; for sa[i] = 0 Python reads x_[-1], the sentinel
bwt_of(x_, sa) == AsSeq([i \in 1..Len(sa) |-> PyAt(x_, sa[i] - 1)])

\* returns [bwt, alpha, sa]; the bitarray of sais_alphabet starts cleared
burrows_wheeler_transform(x) ==
    LET x_ == mapped_string_with_sentinel(x)
        alpha == Alphabet(x)
        sa == sais_alphabet(x_, AlphaLen(alpha), Fill(Len(x_), FALSE))
    IN [bwt |-> bwt_of(x_, sa), alpha |-> alpha, sa |-> sa]

\* a prefix sum that includes the symbol's own count
RECURSIVE ctab_loop_incl(_, _, _, _)
ctab_loop_incl(tab, counts, asize, a) ==
    IF a >= asize THEN tab
    ELSE ctab_loop_incl(Upd(tab, a, counts[a] + At(tab, a - 1)),
                        counts, asize, a + 1)

RECURSIVE ctab_loop(_, _, _, _)
ctab_loop(tab, counts, asize, a) ==
    IF a >= asize THEN tab
    ELSE ctab_loop(Upd(tab, a, counts[a - 1] + At(tab, a - 1)),
                   counts, asize, a + 1)

build_ctab(bwt, asize) ==
    ctab_loop(Fill(asize, 0), Counter(bwt, asize), asize, 1)

\* a column that counts bwt[i] instead of bwt[i-1]
RECURSIVE otab_loop_shift(_, _, _)
otab_loop_shift(tbl, bwt, i) ==
    IF i > Len(bwt) THEN tbl
    ELSE otab_loop_shift(
            AsSeq([r \in 1..Len(tbl) |->
                     Upd(tbl[r], i, At(tbl[r], i - 1)
                                    + (IF PyAt(bwt, i - 2) = r - 1 THEN 1 ELSE 0))]),
            bwt, i + 1)

\* tbl is a sequence of asize rows of len(bwt)+1 columns: tbl[a, i] is
\* At(At(tbl, a), i); column i is column i-1 plus the unit vector of bwt[i-1]
RECURSIVE otab_loop(_, _, _)
otab_loop(tbl, bwt, i) ==
    IF i > Len(bwt) THEN tbl
    ELSE otab_loop(
            AsSeq([r \in 1..Len(tbl) |->
                     Upd(tbl[r], i, At(tbl[r], i - 1)
                                    + (IF At(bwt, i - 1) = r - 1 THEN 1 ELSE 0))]),
            bwt, i + 1)

build_otab(bwt, asize) ==
    otab_loop(Fill(asize, Fill(Len(bwt) + 1, 0)), bwt, 1)

\* FMIndexTables(alpha, sa, ctab, otab, rotab)
preprocess_tables(x) ==
    LET fwd == burrows_wheeler_transform(x)
        bwd == burrows_wheeler_transform(Reverse(x))
    IN [alpha |-> fwd.alpha,
        sa |-> fwd.sa,
        ctab |-> build_ctab(fwd.bwt, AlphaLen(fwd.alpha)),
        otab |-> build_otab(fwd.bwt, AlphaLen(fwd.alpha)),
        rotab |-> build_otab(bwd.bwt, AlphaLen(bwd.alpha))]

\* ------------------------------------------------------------------ D table
\* a table that records each miss instead of counting the misses so far
RECURSIVE dtab_loop_flag(_, _, _, _, _, _)
dtab_loop_flag(st, p, sa, ctab, rotab, i) ==
    IF i >= Len(p) THEN st.dtab
    ELSE LET a == At(p, i)
             left == At(ctab, a) + At(At(rotab, a), st.left)
             right == At(ctab, a) + At(At(rotab, a), st.right)
             miss == left = right
         IN dtab_loop_flag(
               [dtab |-> Upd(st.dtab, i, IF miss THEN 1 ELSE 0),
                min_edits |-> st.min_edits,
                left |-> IF miss THEN 0 ELSE left,
                right |-> IF miss THEN Len(sa) ELSE right],
               p, sa, ctab, rotab, i + 1)

\* a loop that does not start a new interval after a miss
RECURSIVE dtab_loop_noreset(_, _, _, _, _, _)
dtab_loop_noreset(st, p, sa, ctab, rotab, i) ==
    IF i >= Len(p) THEN st.dtab
    ELSE LET a == At(p, i)
             left == At(ctab, a) + At(At(rotab, a), st.left)
             right == At(ctab, a) + At(At(rotab, a), st.right)
             miss == left = right
             min_edits == IF miss THEN st.min_edits + 1 ELSE st.min_edits
         IN dtab_loop_noreset(
               [dtab |-> Upd(st.dtab, i, min_edits),
                min_edits |-> min_edits,
                left |-> left, right |-> right],
               p, sa, ctab, rotab, i + 1)

\* st = [dtab, min_edits, left, right]; loop over i, a in enumerate(p)
RECURSIVE dtab_loop(_, _, _, _, _, _)
dtab_loop(st, p, sa, ctab, rotab, i) ==
    IF i >= Len(p) THEN st.dtab
    ELSE LET a == At(p, i)
             left == At(ctab, a) + At(At(rotab, a), st.left)
             right == At(ctab, a) + At(At(rotab, a), st.right)
             miss == left = right
             min_edits == IF miss THEN st.min_edits + 1 ELSE st.min_edits
         IN dtab_loop(
               [dtab |-> Upd(st.dtab, i, min_edits),
                min_edits |-> min_edits,
                left |-> IF miss THEN 0 ELSE left,
                right |-> IF miss THEN Len(sa) ELSE right],
               p, sa, ctab, rotab, i + 1)

build_dtab(p, sa, ctab, rotab) ==
    dtab_loop([dtab |-> Fill(Len(p) + 1, 0), min_edits |-> 0,
               left |-> 0, right |-> Len(sa)],
              p, sa, ctab, rotab, 0)

\* -------------------------------------------------------------- CIGAR codec
\* A CIGAR string "2M1I" is the sequence of its runs <<2, "M">>, <<1, "I">>.
Edit == {"M", "I", "D"}

\* a run that does not count its members
RECURSIVE edits_to_cigar_once(_)
edits_to_cigar_once(edits) ==
    IF edits = <<>> THEN <<>>
    ELSE LET rest == edits_to_cigar_once(Tail(edits))
         IN IF rest # <<>> /\ rest[1][2] = Head(edits)
            THEN rest
            ELSE <<<<1, Head(edits)>>>> \o rest

RECURSIVE edits_to_cigar(_)
edits_to_cigar(edits) ==
    IF edits = <<>> THEN <<>>
    ELSE LET rest == edits_to_cigar(Tail(edits))
         IN IF rest # <<>> /\ rest[1][2] = Head(edits)
            THEN <<<<rest[1][1] + 1, Head(edits)>>>> \o Tail(rest)
            ELSE <<<<1, Head(edits)>>>> \o rest

RECURSIVE cigar_to_edits(_)
cigar_to_edits(cigar) ==
    IF cigar = <<>> THEN <<>>
    ELSE Fill(cigar[1][1], cigar[1][2]) \o cigar_to_edits(Tail(cigar))

\* The text of a CIGAR: each run as its count in decimal and its kind, a
\* sequence of one-character strings (<<"1", "2", "M">> for "12M").
DigitChars == <<"0", "1", "2", "3", "4", "5", "6", "7", "8", "9">>

RECURSIVE Decimal(_)
Decimal(n) ==
    IF n < 10 THEN <<DigitChars[n + 1]>>
    ELSE Append(Decimal(n \div 10), DigitChars[(n % 10) + 1])

DigitValue(c) == CHOOSE d \in 0..9 : DigitChars[d + 1] = c

RECURSIVE cigar_str(_)
cigar_str(cigar) ==
    IF cigar = <<>> THEN <<>>
    ELSE Decimal(cigar[1][1]) \o <<cigar[1][2]>> \o cigar_str(Tail(cigar))

\* the runs of a CIGAR text; n is the count read so far
RECURSIVE cigar_runs_loop(_, _)
cigar_runs_loop(str, n) ==
    IF str = <<>> THEN <<>>
    ELSE IF Head(str) \in Edit
         THEN <<<<n, Head(str)>>>> \o cigar_runs_loop(Tail(str), 0)
         ELSE cigar_runs_loop(Tail(str), 10 * n + DigitValue(Head(str)))

cigar_runs(str) == cigar_runs_loop(str, 0)

\* the letter of s at program index i, or -1 past the end of s
LetterAt(s, i) == IF i >= 0 /\ i < Len(s) THEN At(s, i) ELSE -1

\* extract_alignment: the two rows of the alignment, 0 standing for the gap
\* '-'; st = [i, j, text, pat] walking text from pos and pattern from 0
RECURSIVE alignment_loop(_, _, _, _)
alignment_loop(st, x, p_, edits) ==
    IF edits = <<>> THEN <<st.text, st.pat>>
    ELSE LET e == Head(edits)
         IN alignment_loop(
               [i |-> IF e = "I" THEN st.i ELSE st.i + 1,
                j |-> IF e = "D" THEN st.j ELSE st.j + 1,
                text |-> Append(st.text,
                                IF e = "I" THEN 0 ELSE LetterAt(x, st.i)),
                pat |-> Append(st.pat,
                               IF e = "D" THEN 0 ELSE LetterAt(p_, st.j))],
               x, p_, Tail(edits))

extract_alignment(x, p_, pos, cigar) ==
    alignment_loop([i |-> pos, j |-> 0, text |-> <<>>, pat |-> <<>>],
                   x, p_, cigar_to_edits(cigar))

count_edits(alignment) ==
    Cardinality({c \in 1..Len(alignment[1]) :
                    alignment[1][c] # alignment[2][c]})

\* ------------------------------------------------------------------ state
\* text:   the reference string each matcher was preprocessed from
\* tables: the FMIndexTables each matcher closes over
\* call:   the arguments of each search(p_, max_edits) invocation and the
\*         matcher it was made on ([matcher, p_, max_edits])
\* srch:   the generator of each invocation: its position (status) and the
\*         local variables of search
\* hits:   what the consumer of each search has been handed so far
\* syms:   history: the symbol chosen by each operation on the current path
\* work:   one call of a table-building function: its name and arguments,
\*         and its result once it has run
VARIABLES text, tables, call, srch, hits, syms, work

vars == <<text, tables, call, srch, hits, syms, work>>

\* MatchFrame(state, left, right, pos, a, edits_idx, max_edits)
MatchFrame(state, left, right, pos, a, edits_idx, max_edits) ==
    [state |-> state, left |-> left, right |-> right, pos |-> pos, a |-> a,
     edits_idx |-> edits_idx, max_edits |-> max_edits]

\* a generator object that has not been started: no local is bound yet
NewSearch ==
    [status |-> "created", state |-> "REC", p |-> <<>>, dtab |-> <<>>,
     left |-> 0, right |-> 0, pos |-> 0, a |-> 0, edits_idx |-> 0,
     max_edits |-> 0, edits |-> <<>>, stack |-> <<>>, cigar |-> <<>>, j |-> 0]

\* assert p_, "We can't do approx search with an empty pattern!"
AssertPatternMut(p_) == TRUE

AssertPattern(p_) == p_ # <<>>

\* the length of the edits buffer allocated for a search
EditsLenMut(p, max_edits) == Len(p)

EditsLen(p, max_edits) == Len(p) + max_edits

\* except KeyError: return
OnKeyErrorMut(r) == [r EXCEPT !.status = "KeyError"]

OnKeyError(r) == [r EXCEPT !.status = "returned"]

\* search, from the call to the first test of the state machine loop
Start(t, c, r) ==
    IF ~AssertPattern(c.p_) THEN [r EXCEPT !.status = "AssertionError"]
    ELSE IF ~CanMap(t.alpha, c.p_) THEN OnKeyError(r)
    ELSE LET p == AlphaMap(t.alpha, c.p_)
         IN [status |-> "running", state |-> "REC", p |-> p,
             dtab |-> build_dtab(p, t.sa, t.ctab, t.rotab),
             left |-> 0, right |-> Len(t.sa), pos |-> Len(p) - 1,
             a |-> -1, edits_idx |-> 0, max_edits |-> c.max_edits,
             edits |-> Fill(EditsLen(p, c.max_edits), "M"),
             stack |-> <<MatchFrame("DONE", 0, Len(t.sa), Len(p) - 1,
                                    -1, -1, -1)>>,
             cigar |-> <<>>, j |-> 0]

\* edits[edits_idx] = kind; edits_idx += 1 (IndexError past the buffer)
PushEdit(r, kind) ==
    IF r.edits_idx >= Len(r.edits) THEN [r EXCEPT !.status = "IndexError"]
    ELSE [r EXCEPT !.edits = Upd(r.edits, r.edits_idx, kind),
                   !.edits_idx = r.edits_idx + 1]

\* case MatchState.DONE
DoneStep(t, r) == [r EXCEPT !.status = "returned"]

\* the pruning test of MatchState.REC
PrunedMut(r) == r.left = r.right \/ r.max_edits <= PyAt(r.dtab, r.pos)

Pruned(r) == r.left = r.right \/ r.max_edits < PyAt(r.dtab, r.pos)

\* case MatchState.REC, up to the first yield of a hit
RecStep(t, r) ==
    IF Pruned(r) THEN [r EXCEPT !.state = "POP_NEXT"]
    ELSE IF r.pos < 0
    THEN [r EXCEPT !.cigar = edits_to_cigar(
                                Reverse(SubSeq(r.edits, 1, r.edits_idx))),
                   !.j = r.left,
                   !.status = "yielding"]
    ELSE [r EXCEPT !.a = 1, !.state = "MATCH"]

\* the index of the suffix array the hit loop emits at its step j
HitIndexMut(r) == r.right - 1 - (r.j - r.left)

HitIndex(r) == r.j

\* the position of the first row of the interval, whatever j is
YieldedFirst(t, r) == [pos |-> At(t.sa, r.left), cigar |-> r.cigar]

\* the pair the generator hands over at a yield
Yielded(t, r) == [pos |-> At(t.sa, HitIndex(r)), cigar |-> r.cigar]

\* resuming after a yield: the next j, or the end of the for loop
YieldStep(t, r) ==
    IF r.j + 1 < r.right THEN [r EXCEPT !.j = r.j + 1]
    ELSE [r EXCEPT !.status = "running", !.state = "POP_NEXT"]

\* the interval after reading symbol a backwards
StepLeftMut(t, r) == At(t.ctab, r.a) + At(At(t.otab, r.a), r.left + 1)

StepLeft(t, r) == At(t.ctab, r.a) + At(At(t.otab, r.a), r.left)

StepRight(t, r) == At(t.ctab, r.a) + At(At(t.otab, r.a), r.right)

\* int(a != p[pos]): what reading symbol a against pattern symbol c costs
MismatchCostMut(a, c) == 0

MismatchCost(a, c) == IF a # c THEN 1 ELSE 0

\* case MatchState.MATCH
MatchStep(t, r) ==
    IF r.a = AlphaLen(t.alpha) THEN [r EXCEPT !.state = "INSERT"]
    ELSE PushEdit(
            [r EXCEPT !.stack = Append(r.stack,
                                   MatchFrame("MATCH", r.left, r.right, r.pos,
                                              r.a + 1, r.edits_idx,
                                              r.max_edits)),
                      !.state = "REC",
                      !.left = StepLeft(t, r),
                      !.right = StepRight(t, r),
                      !.max_edits = r.max_edits
                                    - MismatchCost(r.a, At(r.p, r.pos)),
                      !.pos = r.pos - 1],
            "M")

\* case MatchState.INSERT
InsertStep(t, r) ==
    PushEdit(
        [r EXCEPT !.stack = Append(r.stack,
                               MatchFrame("DELETE", r.left, r.right, r.pos, 1,
                                          r.edits_idx, r.max_edits)),
                  !.state = "REC",
                  !.pos = r.pos - 1,
                  !.max_edits = r.max_edits - 1],
        "I")

\* the test that ends the deletions of a node
NoDeleteMut(t, r) == r.a = AlphaLen(t.alpha)

NoDelete(t, r) == r.a = AlphaLen(t.alpha) \/ r.edits_idx = 0

\* the budget left after a deletion
AfterDeleteMut(max_edits) == max_edits

AfterDelete(max_edits) == max_edits - 1

\* case MatchState.DELETE
DeleteStep(t, r) ==
    IF NoDelete(t, r) THEN [r EXCEPT !.state = "POP_NEXT"]
    ELSE PushEdit(
            [r EXCEPT !.stack = Append(r.stack,
                                   MatchFrame("DELETE", r.left, r.right, r.pos,
                                              r.a + 1, r.edits_idx,
                                              r.max_edits)),
                      !.state = "REC",
                      !.left = StepLeft(t, r),
                      !.right = StepRight(t, r),
                      !.max_edits = AfterDelete(r.max_edits)],
            "D")

\* a pop that leaves edits_idx where the abandoned path put it
PopNextStepKeep(t, r) ==
    LET f == r.stack[Len(r.stack)]
    IN [r EXCEPT !.state = f.state, !.left = f.left, !.right = f.right,
                 !.pos = f.pos, !.a = f.a,
                 !.max_edits = f.max_edits,
                 !.stack = SubSeq(r.stack, 1, Len(r.stack) - 1)]

\* case MatchState.POP_NEXT
PopNextStep(t, r) ==
    LET f == r.stack[Len(r.stack)]
    IN [r EXCEPT !.state = f.state, !.left = f.left, !.right = f.right,
                 !.pos = f.pos, !.a = f.a, !.edits_idx = f.edits_idx,
                 !.max_edits = f.max_edits,
                 !.stack = SubSeq(r.stack, 1, Len(r.stack) - 1)]

\* one iteration of the generator, whatever its position
StepOf(t, r) ==
    IF r.status = "yielding" THEN YieldStep(t, r)
    ELSE CASE r.state = "DONE" -> DoneStep(t, r)
           [] r.state = "REC" -> RecStep(t, r)
           [] r.state = "MATCH" -> MatchStep(t, r)
           [] r.state = "INSERT" -> InsertStep(t, r)
           [] r.state = "DELETE" -> DeleteStep(t, r)
           [] r.state = "POP_NEXT" -> PopNextStep(t, r)

\* the pairs a generator yields from position r on when nothing else runs
RECURSIVE RunFrom(_, _, _)
RunFrom(t, r, out) ==
    IF r.status \notin {"running", "yielding"} THEN out
    ELSE RunFrom(t, StepOf(t, r),
                 IF r.status = "yielding" THEN Append(out, Yielded(t, r))
                 ELSE out)

\* list(search(p_, max_edits)) on the matcher of tables t
RunAlone(t, c) == RunFrom(t, Start(t, c, NewSearch), <<>>)

\* ------------------------------------------------------- recursive search
\* The search as a recursion over nodes (i, L, R, edits_left) with the list
\* ops of the operations applied so far: prune if edits_left < D[i]; report
\* every j in [L, R) if i < 0; otherwise M for each symbol, then I, then (not
\* at the root) D for each symbol.  A hit is [pos, cigar, ops].
RECURSIVE rec_search(_, _, _, _, _, _, _, _)
RECURSIVE rec_symbols(_, _, _, _, _, _, _, _, _, _)
rec_search(t, p, D, L, R, i, edits_left, ops) ==
    IF edits_left < PyAt(D, i) THEN <<>>
    ELSE IF i < 0
    THEN AsSeq([n \in 1..(R - L) |->
                  [pos |-> At(t.sa, L + n - 1),
                   cigar |-> edits_to_cigar(Reverse(ops)),
                   ops |-> ops]])
    ELSE rec_symbols(t, p, D, L, R, i, edits_left, ops, "M", 1)
         \o rec_search(t, p, D, L, R, i - 1, edits_left - 1, Append(ops, "I"))
         \o (IF ops = <<>> THEN <<>>
             ELSE rec_symbols(t, p, D, L, R, i, edits_left, ops, "D", 1))

\* the operator kind (M or D) applied with each symbol from a upwards
rec_symbols(t, p, D, L, R, i, edits_left, ops, kind, a) ==
    IF a >= AlphaLen(t.alpha) THEN <<>>
    ELSE (IF At(t.ctab, a) + At(At(t.otab, a), L)
                >= At(t.ctab, a) + At(At(t.otab, a), R)
          THEN <<>>
          ELSE rec_search(t, p, D,
                          At(t.ctab, a) + At(At(t.otab, a), L),
                          At(t.ctab, a) + At(At(t.otab, a), R),
                          IF kind = "M" THEN i - 1 ELSE i,
                          IF kind = "M" /\ a = At(p, i)
                          THEN edits_left ELSE edits_left - 1,
                          Append(ops, kind)))
         \o rec_symbols(t, p, D, L, R, i, edits_left, ops, kind, a + 1)

\* the hits of the recursive search of p_ with budget k on the tables t
recursive_search(t, p_, k) ==
    rec_search(t, AlphaMap(t.alpha, p_),
               build_dtab(AlphaMap(t.alpha, p_), t.sa, t.ctab, t.rotab),
               0, Len(t.sa), Len(p_) - 1, k, <<>>)

\* ---------------------------------------------------------------- actions
Tables(s) == tables[call[s].matcher]

\* the operations on the path to the current node, first applied first,
\* each with the symbol it chose (0 for an insertion)
Path(s) ==
    AsSeq([i \in 1..srch[s].edits_idx |-> <<srch[s].edits[i], syms[s][i]>>])

\* history of a step that applies an operation with symbol a
Chosen(s, a) ==
    syms' = [syms EXCEPT ![s] = Append(SubSeq(@, 1, srch[s].edits_idx), a)]

Running(s, state) == srch[s].status = "running" /\ srch[s].state = state

\* the consumer's first next() on the generator
Call(s) ==
    /\ srch[s].status = "created"
    /\ srch' = [srch EXCEPT ![s] = Start(Tables(s), call[s], @)]
    /\ UNCHANGED <<text, tables, call, hits, syms, work>>

Rec(s) ==
    /\ Running(s, "REC")
    /\ srch' = [srch EXCEPT ![s] = RecStep(Tables(s), @)]
    /\ UNCHANGED <<text, tables, call, hits, syms, work>>

\* a hit is handed to the consumer, who pulls again
Yield(s) ==
    /\ srch[s].status = "yielding"
    /\ hits' = [hits EXCEPT ![s] =
                  Append(@, [pos |-> Yielded(Tables(s), srch[s]).pos,
                             cigar |-> Yielded(Tables(s), srch[s]).cigar,
                             j |-> HitIndex(srch[s]),
                             path |-> Path(s)])]
    /\ srch' = [srch EXCEPT ![s] = YieldStep(Tables(s), @)]
    /\ UNCHANGED <<text, tables, call, syms, work>>

\* a MATCH step that also stores the new left end in the C table
MatchClobber(s) ==
    /\ Running(s, "MATCH")
    /\ srch' = [srch EXCEPT ![s] = MatchStep(Tables(s), @)]
    /\ IF srch[s].a = AlphaLen(Tables(s).alpha)
       THEN UNCHANGED <<syms, tables>>
       ELSE /\ Chosen(s, srch[s].a)
            /\ tables' = [tables EXCEPT ![call[s].matcher].ctab =
                             Upd(@, srch[s].a, StepLeft(Tables(s), srch[s]))]
    /\ UNCHANGED <<text, call, hits, work>>

Match(s) ==
    /\ Running(s, "MATCH")
    /\ srch' = [srch EXCEPT ![s] = MatchStep(Tables(s), @)]
    /\ IF srch[s].a = AlphaLen(Tables(s).alpha)
       THEN UNCHANGED syms ELSE Chosen(s, srch[s].a)
    /\ UNCHANGED <<text, tables, call, hits, work>>

Insert(s) ==
    /\ Running(s, "INSERT")
    /\ srch' = [srch EXCEPT ![s] = InsertStep(Tables(s), @)]
    /\ Chosen(s, 0)
    /\ UNCHANGED <<text, tables, call, hits, work>>

Delete(s) ==
    /\ Running(s, "DELETE")
    /\ srch' = [srch EXCEPT ![s] = DeleteStep(Tables(s), @)]
    /\ IF NoDelete(Tables(s), srch[s])
       THEN UNCHANGED syms ELSE Chosen(s, srch[s].a)
    /\ UNCHANGED <<text, tables, call, hits, work>>

PopNext(s) ==
    /\ Running(s, "POP_NEXT")
    /\ srch' = [srch EXCEPT ![s] = PopNextStep(Tables(s), @)]
    /\ UNCHANGED <<text, tables, call, hits, syms, work>>

Done(s) ==
    /\ Running(s, "DONE")
    /\ srch' = [srch EXCEPT ![s] = DoneStep(Tables(s), @)]
    /\ UNCHANGED <<text, tables, call, hits, syms, work>>

Next ==
    \/ \E s \in DOMAIN srch : Call(s)
    \/ \E s \in DOMAIN srch : Rec(s)
    \/ \E s \in DOMAIN srch : Yield(s)
    \/ \E s \in DOMAIN srch : Match(s)
    \/ \E s \in DOMAIN srch : Insert(s)
    \/ \E s \in DOMAIN srch : Delete(s)
    \/ \E s \in DOMAIN srch : PopNext(s)
    \/ \E s \in DOMAIN srch : Done(s)

\* one call of sais on a string
RunSais ==
    /\ work.fn = "sais" /\ ~work.done
    /\ work' = [work EXCEPT !.done = TRUE, !.out = sais(work.x, work.bits)]
    /\ UNCHANGED <<text, tables, call, srch, hits, syms>>

NextSais == RunSais

\* one call of build_ctab on a string over 0..asize-1
RunCtab ==
    /\ work.fn = "build_ctab" /\ ~work.done
    /\ work' = [work EXCEPT !.done = TRUE,
                            !.out = build_ctab(work.bwt, work.asize)]
    /\ UNCHANGED <<text, tables, call, srch, hits, syms>>

\* one call of build_otab on a string over 0..asize-1
RunOtab ==
    /\ work.fn = "build_otab" /\ ~work.done
    /\ work' = [work EXCEPT !.done = TRUE,
                            !.out = build_otab(work.bwt, work.asize)]
    /\ UNCHANGED <<text, tables, call, srch, hits, syms>>

\* one call of burrows_wheeler_transform on a string
RunBwt ==
    /\ work.fn = "burrows_wheeler_transform" /\ ~work.done
    /\ work' = [work EXCEPT !.done = TRUE,
                            !.out = burrows_wheeler_transform(work.x)]
    /\ UNCHANGED <<text, tables, call, srch, hits, syms>>

NextTab == RunCtab \/ RunOtab \/ RunBwt

\* edits_to_cigar on a list of edits and cigar_to_edits on its result
RunCigar ==
    /\ work.fn = "edits_to_cigar" /\ ~work.done
    /\ work' = [work EXCEPT
                  !.done = TRUE,
                  !.out = [runs |-> edits_to_cigar(work.edits),
                           cigar |-> cigar_str(edits_to_cigar(work.edits)),
                           back |-> cigar_to_edits(cigar_runs(
                                       cigar_str(edits_to_cigar(work.edits))))]]
    /\ UNCHANGED <<text, tables, call, srch, hits, syms>>

NextCigar == RunCigar

\* one call of equal_lms on a classified text and two of its LMS positions
RunEqualLms ==
    /\ work.fn = "equal_lms" /\ ~work.done
    /\ work' = [work EXCEPT
                  !.done = TRUE,
                  !.out = equal_lms(work.x, work.is_s, work.i, work.j)]
    /\ UNCHANGED <<text, tables, call, srch, hits, syms>>

NextLms == RunEqualLms

\* -------------------------------------------------------- specifications
Texts(n) == SeqsOf(Letters, 0, n)

Patterns(n) == SeqsOf(Letters \cup {Foreign}, 0, n)

NoWork == [fn |-> "none", done |-> TRUE]

\* matchers ms built from the texts of ts, searches ss called with the
\* patterns of ps and budgets <= kn
InitWith(ms, ss, ts, ps, kn) ==
    /\ text \in [ms -> ts]
    /\ tables = [m \in ms |-> preprocess_tables(text[m])]
    /\ call \in [ss -> [matcher : ms, p_ : ps, max_edits : 0..kn]]
    /\ srch = [s \in ss |-> NewSearch]
    /\ hits = [s \in ss |-> <<>>]
    /\ syms = [s \in ss |-> <<>>]
    /\ work = NoWork

\* one matcher, one search
Init == InitWith({1}, {1}, Texts(MaxTextLen), Patterns(MaxPatLen), MaxEdits)

Spec == Init /\ [][Next]_vars

\* one search with a budget up to FairEdits whose consumer keeps pulling
InitFair ==
    InitWith({1}, {1}, Texts(MaxTextLen), Patterns(MaxPatLen), FairEdits)

FairSpec == InitFair /\ [][Next]_vars /\ WF_vars(Next)

\* the matchers of two different references and two searches pulled in any
\* interleaving, the first on matcher 1, the second on either matcher
InitPar ==
    /\ InitWith({1, 2}, {1, 2}, ParTexts, ParPatterns, ParEdits)
    /\ text[1] # text[2]
    /\ call[1].matcher = 1

SpecPar == InitPar /\ [][Next]_vars

\* one search of a pattern of up to LongPatLen letters with a budget up to
\* LongEdits
InitLong ==
    InitWith({1}, {1}, Texts(MaxTextLen), Patterns(LongPatLen), LongEdits)

SpecLong == InitLong /\ [][Next]_vars

\* sais on every string of up to MaxSaisLen letters; the bitarray it
\* allocates is not initialised, so it starts all clear or all set
InitSais ==
    /\ text = <<>> /\ tables = <<>> /\ call = <<>>
    /\ srch = <<>> /\ hits = <<>> /\ syms = <<>>
    /\ \E x \in SeqsOf(Letters \cup {Foreign}, 0, MaxSaisLen), b \in BOOLEAN :
          work = [fn |-> "sais", x |-> x, bits |-> Fill(Len(x) + 1, b),
                  done |-> FALSE, out |-> <<>>]

SpecSais == InitSais /\ [][NextSais]_vars

\* the strings over 0..asize-1 the table builders are run on
BwtStrings(asize) ==
    SeqsOf(0..(asize - 1), 0, MaxBwtLen)
        \cup {b \in BwtExamples : \A i \in 1..Len(b) : b[i] < asize}

\* build_ctab and build_otab on every string over 0..asize-1 for asize up
\* to MaxAsize, burrows_wheeler_transform on every text of up to MaxBwtLen
\* letters and on "aabca"
InitTab ==
    /\ text = <<>> /\ tables = <<>> /\ call = <<>>
    /\ srch = <<>> /\ hits = <<>> /\ syms = <<>>
    /\ \/ \E asize \in 1..MaxAsize, f \in {"build_ctab", "build_otab"} :
             \E b \in BwtStrings(asize) :
                work = [fn |-> f, bwt |-> b, asize |-> asize,
                        done |-> FALSE, out |-> <<>>]
       \/ \E x \in SeqsOf(Letters \cup {Foreign}, 0, MaxBwtLen)
                       \cup {<<1, 1, 2, Foreign, 1>>} :
             work = [fn |-> "burrows_wheeler_transform", x |-> x,
                     done |-> FALSE, out |-> <<>>]

SpecTab == InitTab /\ [][NextTab]_vars

\* every list of up to MaxEditsLen edits, and every list of two runs of up
\* to MaxRun edits each
InitCigar ==
    /\ text = <<>> /\ tables = <<>> /\ call = <<>>
    /\ srch = <<>> /\ hits = <<>> /\ syms = <<>>
    /\ \E e \in SeqsOf(Edit, 0, MaxEditsLen)
                  \cup {Fill(n, k1) \o Fill(m, k2) :
                          <<n, m, k1, k2>> \in (0..MaxRun) \X (0..MaxRun)
                                                \X Edit \X Edit} :
          work = [fn |-> "edits_to_cigar", edits |-> AsSeq(e),
                  done |-> FALSE, out |-> <<>>]

SpecCigar == InitCigar /\ [][NextCigar]_vars

\* the mapped, sentinel-terminated text of every string of up to MaxLmsLen
\* letters, classified by classify_sl, and any two of its LMS positions
InitLms ==
    /\ text = <<>> /\ tables = <<>> /\ call = <<>>
    /\ srch = <<>> /\ hits = <<>> /\ syms = <<>>
    /\ \E x \in SeqsOf(Letters \cup {Foreign}, 0, MaxLmsLen) :
          LET x_ == mapped_string_with_sentinel(x)
              is_s == classify_sl(Fill(Len(x_), FALSE), x_)
          IN \E i, j \in 0..(Len(x_) - 1) :
                /\ is_lms(is_s, i) /\ is_lms(is_s, j)
                /\ work = [fn |-> "equal_lms", x |-> x_, is_s |-> is_s,
                           i |-> i, j |-> j, done |-> FALSE, out |-> FALSE]

SpecLms == InitLms /\ [][NextLms]_vars

\* ------------------------------------------------------------ properties
Searches == DOMAIN srch

X(s) == text[call[s].matcher]

P_(s) == call[s].p_

K(s) == call[s].max_edits

Returned(s) == srch[s].status = "returned"

HitPositions(s) == {hits[s][i].pos : i \in 1..Len(hits[s])}

\* number of edits of the alignment a hit describes
HitEdits(s, h) == count_edits(extract_alignment(X(s), P_(s), h.pos, h.cigar))

\* C1 (search soundness): every pair (pos, cigar) a search yields describes
\* an alignment of the pattern at text position pos with at most max_edits
\* columns in which text and pattern differ.  (hits only grows by Append, so
\* every hit is the last one in the state its yield leads to.)
Soundness ==
    \A s \in Searches :
        hits[s] # <<>> => HitEdits(s, hits[s][Len(hits[s])]) <= K(s)

\* a hit that uses the whole budget of two edits, one of them a deletion
SoundnessWitness ==
    \E s \in Searches : \E i \in 1..Len(hits[s]) :
        /\ K(s) = 2
        /\ HitEdits(s, hits[s][i]) = 2
        /\ \E c \in 1..Len(hits[s][i].cigar) : hits[s][i].cigar[c][2] = "D"

\* positions i with T[i .. i+|P|) = P
Occurrences(x, p_) ==
    {i \in 0..(Len(x) - Len(p_)) : SubSeq(x, i + 1, i + Len(p_)) = p_}

\* C2 (exact search): a finished search with budget 0 for a non-empty
\* pattern has yielded exactly the positions where the pattern occurs in
\* the text as a substring.
ExactSearch ==
    \A s \in Searches :
        (Returned(s) /\ K(s) = 0 /\ P_(s) # <<>>)
            => HitPositions(s) = Occurrences(X(s), P_(s))

\* a finished exact search of a two-letter pattern that occurs twice
ExactSearchWitness ==
    \E s \in Searches :
        /\ Returned(s) /\ K(s) = 0 /\ Len(P_(s)) = 2
        /\ Cardinality(HitPositions(s)) = 2

\* can p_[j ..] be aligned with the text from index i on with at most budget
\* mismatches, insertions and deletions, no deletion coming first
RECURSIVE Aligns(_, _, _, _, _, _)
Aligns(x, p_, i, j, budget, first) ==
    IF budget < 0 THEN FALSE
    ELSE IF j = Len(p_) THEN TRUE
    ELSE \/ /\ i < Len(x)
            /\ Aligns(x, p_, i + 1, j + 1,
                      budget - (IF At(x, i) # At(p_, j) THEN 1 ELSE 0), FALSE)
         \/ Aligns(x, p_, i, j + 1, budget - 1, FALSE)
         \/ /\ ~first /\ i < Len(x)
            /\ Aligns(x, p_, i + 1, j, budget - 1, FALSE)

SuffixLess(t, i, j) ==
    \E d \in 0..(Len(t) - 1) :
        /\ i + d < Len(t) /\ j + d < Len(t)
        /\ \A e \in 0..(d - 1) : At(t, i + e) = At(t, j + e)
        /\ At(t, i + d) < At(t, j + d)

IsSuffixArray(t, sa) ==
    /\ Len(sa) = Len(t)
    /\ {sa[i] : i \in 1..Len(sa)} = 0..(Len(t) - 1)
    /\ \A i \in 1..(Len(sa) - 1) : SuffixLess(t, sa[i], sa[i + 1])
    /\ At(sa, 0) = Len(t) - 1

\* C4 (suffix array): sais(x) is a permutation of 0..|x| that lists the
\* suffixes of the sentinel-terminated mapped text in strictly increasing
\* lexicographic order, the sentinel's position first.
SaisSorted ==
    (work.fn = "sais" /\ work.done)
        => IsSuffixArray(mapped_string_with_sentinel(work.x), work.out)

\* sais has run on a string whose LMS substrings repeat, so that the
\* reduced string is sorted by a recursive call that is no base case
SaisSortedWitness ==
    /\ work.fn = "sais" /\ work.done
    /\ LET t == mapped_string_with_sentinel(work.x)
           asize == AlphaLen(Alphabet(work.x))
       IN /\ Len(t) # asize
          /\ LET r == sais_reduce(t, Fill(Len(t), 0), asize, work.bits)
             IN r.red_asize < r.k

\* C5 (unknown symbol): a search of a non-empty pattern with a letter that
\* is not in the reference's alphabet returns at once: it yields nothing,
\* raises nothing and never enters the state machine.
UnknownSymbol ==
    \A s \in Searches :
        (P_(s) # <<>> /\ ~CanMap(Tables(s).alpha, P_(s)))
            => /\ srch[s].status \in {"created", "returned"}
               /\ hits[s] = <<>>
               /\ srch[s].stack = <<>> /\ srch[s].edits = <<>>

\* such a search has returned, with a budget that would allow edits
UnknownSymbolWitness ==
    \E s \in Searches :
        /\ P_(s) # <<>> /\ ~CanMap(Tables(s).alpha, P_(s))
        /\ \E i \in 1..Len(P_(s)) : P_(s)[i] \in Alphabet(X(s))
        /\ K(s) = 2 /\ Returned(s)

\* C6 (empty pattern): a search of the empty pattern ends in an
\* AssertionError, never in a hit and never in a normal return.
EmptyPattern ==
    \A s \in Searches :
        P_(s) = <<>>
            => /\ srch[s].status \in {"created", "AssertionError"}
               /\ hits[s] = <<>>

EmptyPatternWitness ==
    \E s \in Searches :
        P_(s) = <<>> /\ X(s) # <<>> /\ srch[s].status = "AssertionError"

Ended(s) == srch[s].status \in {"returned", "AssertionError"}

\* a step from a node of the traversal to one of its children
ChildStep(s) ==
    /\ srch[s].status = "running" /\ srch'[s].status = "running"
    /\ srch[s].state \in {"MATCH", "INSERT", "DELETE"}
    /\ srch'[s].state = "REC"

\* (pos, max_edits) gets strictly smaller in the product order
Decreases(s) ==
    /\ srch'[s].pos <= srch[s].pos
    /\ srch'[s].max_edits <= srch[s].max_edits
    /\ <<srch'[s].pos, srch'[s].max_edits>> # <<srch[s].pos, srch[s].max_edits>>

\* at a node that is expanded or reported the budget covers D[pos]
BoundedBelow(s) ==
    srch[s].status \in {"running", "yielding"}
        => /\ srch[s].pos >= -1 /\ srch[s].max_edits >= -1
           /\ (srch[s].state \in {"MATCH", "INSERT", "DELETE"}
                 \/ srch[s].status = "yielding")
                => srch[s].max_edits >= PyAt(srch[s].dtab, srch[s].pos)

\* C7 (termination): a search whose consumer keeps pulling ends after
\* finitely many steps; every step to a child strictly decreases
\* (pos, max_edits) in the product order, pos never goes below -1 and a
\* node whose budget is below D[pos] is not expanded.
Termination ==
    /\ <>(\A s \in Searches : Ended(s))
    /\ [][\A s \in Searches : ChildStep(s) => Decreases(s)]_vars
    /\ [](\A s \in Searches : BoundedBelow(s))

\* a search with budget 1 that has ended after yielding at least three
\* hits, one of them through a deletion
TerminationWitness ==
    \E s \in Searches :
        /\ Returned(s) /\ K(s) = 1 /\ Len(P_(s)) = 2 /\ Len(hits[s]) >= 3
        /\ \E i \in 1..Len(hits[s]) : \E c \in 1..Len(hits[s][i].cigar) :
              hits[s][i].cigar[c][2] = "D"

\* C8 (no boundary deletions): the first operation of a path is never a
\* deletion, the operation before a hit is never a deletion, and no yielded
\* CIGAR (each is the last of hits right after its yield) begins or ends
\* with a D run.
NoBoundaryDeletion ==
    \A s \in Searches :
        /\ (srch[s].status \in {"running", "yielding"} /\ srch[s].edits_idx >= 1)
              => At(srch[s].edits, 0) # "D"
        /\ srch[s].status = "yielding"
              => At(srch[s].edits, srch[s].edits_idx - 1) # "D"
        /\ hits[s] # <<>> =>
              LET c == hits[s][Len(hits[s])].cigar
              IN c # <<>> => c[1][2] # "D" /\ c[Len(c)][2] # "D"

\* a hit with a deletion inside its CIGAR
NoBoundaryDeletionWitness ==
    \E s \in Searches : \E i \in 1..Len(hits[s]) :
        LET c == hits[s][i].cigar
        IN Len(c) = 3 /\ c[2][2] = "D"

\* the place of an operation among the children of a node: the matches by
\* symbol, then the insertion, then the deletions by symbol
Rank(s, op) ==
    LET sigma == AlphaLen(Tables(s).alpha)
    IN CASE op[1] = "M" -> op[2]
         [] op[1] = "I" -> sigma
         [] op[1] = "D" -> sigma + op[2]

\* path u is left of path v in the traversal: they part at some depth and
\* there u takes the earlier child
PathBefore(s, u, v) ==
    \E d \in 1..Len(u) :
        /\ d <= Len(v)
        /\ \A e \in 1..(d - 1) : u[e] = v[e]
        /\ Rank(s, u[d]) < Rank(s, v[d])

\* C9 (hit order): a hit and the one yielded before it either come from the
\* same node, with consecutive suffix array indices L, L+1, ..., R-1, or the
\* later one comes from a node further right in the depth-first traversal
\* that tries the matches 1..sigma-1, then the insertion, then the deletions
\* 1..sigma-1; the first hit of a node has index L.
HitOrder ==
    \A s \in Searches :
        LET n == Len(hits[s])
        IN /\ n >= 2 =>
                \/ /\ hits[s][n - 1].path = hits[s][n].path
                   /\ hits[s][n].j = hits[s][n - 1].j + 1
                \/ PathBefore(s, hits[s][n - 1].path, hits[s][n].path)
           /\ srch[s].status = "yielding" => 
                /\ HitIndex(srch[s]) \in srch[s].left..(srch[s].right - 1)
                /\ (n = 0 \/ hits[s][n].path # Path(s))
                      => HitIndex(srch[s]) = srch[s].left

\* hits of one node followed by a hit of a later node, reached by a deletion
\* where the earlier one took a match
HitOrderWitness ==
    \E s \in Searches : \E i \in 1..(Len(hits[s]) - 2) :
        /\ hits[s][i].path = hits[s][i + 1].path
        /\ hits[s][i + 1].path # hits[s][i + 2].path
        /\ \E d \in 1..Len(hits[s][i + 2].path) :
              hits[s][i + 2].path[d][1] = "D"

\* what the consumer of search s has received
Received(s) ==
    AsSeq([i \in 1..Len(hits[s]) |->
             [pos |-> hits[s][i].pos, cigar |-> hits[s][i].cigar]])

\* a step changes the generator and the hits of one search only
OwnStateOnly ==
    \A s \in Searches :
        (srch'[s] # srch[s] \/ hits'[s] # hits[s])
            => \A o \in Searches \ {s} : srch'[o] = srch[o] /\ hits'[o] = hits[o]

\* C10 (search isolation): no step of a search changes the tables of any
\* matcher or the state of another search, and when the searches have all
\* finished each has yielded exactly what it yields when it runs alone.
Isolation ==
    /\ [][tables' = tables /\ OwnStateOnly]_vars
    /\ []((\A s \in Searches : Returned(s))
            => \A s \in Searches : Received(s) = RunAlone(Tables(s), call[s]))

\* both searches have finished with hits, one on each matcher, after steps
\* of the second were taken between two hits of the first
IsolationWitness ==
    /\ call[1].matcher # call[2].matcher
    /\ Returned(1) /\ Len(hits[1]) >= 2
    /\ srch[2].status = "running" /\ Len(hits[2]) >= 1
    /\ Len(srch[2].stack) >= 2

\* number of positions lo..hi of b that hold the symbol a
CountOf(b, lo, hi, a) ==
    Cardinality({j \in lo..hi : j >= 1 /\ j <= Len(b) /\ b[j] = a})

CtabRun == work.fn = "build_ctab" /\ work.done

\* C11 (C table): build_ctab(B, sigma) has sigma entries, C[a] is the number
\* of positions of B holding a symbol smaller than a; so C[0] = 0, C never
\* decreases and C[sigma-1] plus the count of sigma-1 is the length of B.
CtabCorrect ==
    CtabRun =>
        LET B == work.bwt
            sigma == work.asize
            C == work.out
        IN /\ Len(C) = sigma
           /\ \A a \in 0..(sigma - 1) :
                 At(C, a) = Cardinality({j \in 1..Len(B) : B[j] < a})
           /\ At(C, 0) = 0
           /\ \A a \in 1..(sigma - 1) : At(C, a - 1) <= At(C, a)
           /\ At(C, sigma - 1) + CountOf(B, 1, Len(B), sigma - 1) = Len(B)

\* the C table of the BWT of "aabca" is [0, 1, 4, 5]
CtabCorrectWitness ==
    /\ CtabRun
    /\ work.bwt = <<1, 3, 0, 1, 1, 2>> /\ work.asize = 4
    /\ work.out = <<0, 1, 4, 5>>

\* the sum of the entries of column i in rows 0..a
RECURSIVE ColumnSum(_, _, _)
ColumnSum(O, i, a) ==
    IF a < 0 THEN 0 ELSE At(At(O, a), i) + ColumnSum(O, i, a - 1)

OtabRun == work.fn = "build_otab" /\ work.done

\* C12 (O table): build_otab(B, sigma) has sigma rows of len(B)+1 columns,
\* O[a][i] is the number of j < i with B[j] = a; so column 0 is zero, column
\* i is column i-1 plus the unit vector of B[i-1], and column n sums to n.
OtabCorrect ==
    OtabRun =>
        LET B == work.bwt
            sigma == work.asize
            O == work.out
            n == Len(work.bwt)
        IN /\ Len(O) = sigma
           /\ \A a \in 0..(sigma - 1) :
                 /\ Len(At(O, a)) = n + 1
                 /\ At(At(O, a), 0) = 0
                 /\ \A i \in 0..n : At(At(O, a), i) = CountOf(B, 1, i, a)
                 /\ \A i \in 1..n :
                       At(At(O, a), i) - At(At(O, a), i - 1)
                           = IF At(B, i - 1) = a THEN 1 ELSE 0
           /\ \A i \in 0..n : ColumnSum(O, i, sigma - 1) = i

\* the O table of the BWT of "aabca"
OtabCorrectWitness ==
    /\ OtabRun
    /\ work.bwt = <<1, 3, 0, 1, 1, 2>> /\ work.asize = 4
    /\ work.out = << <<0, 0, 0, 1, 1, 1, 1>>, <<0, 1, 1, 1, 2, 3, 3>>,
                     <<0, 0, 0, 0, 0, 0, 1>>, <<0, 0, 1, 1, 1, 1, 1>> >>

BwtRun == work.fn = "burrows_wheeler_transform" /\ work.done

\* C13 (BWT): burrows_wheeler_transform(x) returns the suffix array SA of the
\* sentinel-terminated mapped text T and the string B with
\* B[i] = T[(SA[i] - 1) mod n]; B holds the symbols of T, each as often.
BwtCorrect ==
    BwtRun =>
        LET T == mapped_string_with_sentinel(work.x)
            n == Len(work.x) + 1
            B == work.out.bwt
            SA == work.out.sa
        IN /\ IsSuffixArray(T, SA)
           /\ work.out.alpha = Alphabet(work.x)
           /\ Len(B) = n
           /\ \A i \in 0..(n - 1) : At(B, i) = At(T, (At(SA, i) + n - 1) % n)
           /\ \A i \in 0..(n - 1) : At(SA, i) = 0 => At(B, i) = 0
           /\ \A a \in 0..n : CountOf(B, 1, n, a) = CountOf(T, 1, n, a)

\* the BWT of "aabca" (a = 1, b = 2, c = 3) is [1, 3, 0, 1, 1, 2]
BwtCorrectWitness ==
    /\ BwtRun
    /\ work.x = <<1, 1, 2, Foreign, 1>>
    /\ work.out.bwt = <<1, 3, 0, 1, 1, 2>>

CigarRun == work.fn = "edits_to_cigar" /\ work.done

\* C14 (CIGAR round trip): cigar_to_edits(edits_to_cigar(edits)) = edits for
\* every list of edits, and the CIGAR holds the maximal runs of the list:
\* every count is at least 1 and adjacent runs differ in kind.
CigarRoundTrip ==
    CigarRun =>
        /\ work.out.back = work.edits
        /\ \A r \in 1..Len(work.out.runs) :
              /\ work.out.runs[r][1] >= 1
              /\ r > 1 => work.out.runs[r][2] # work.out.runs[r - 1][2]
        /\ work.edits = <<"M", "M", "I", "M", "D">>
              => work.out.cigar = <<"2", "M", "1", "I", "1", "M", "1", "D">>

\* a list whose CIGAR has a run of ten or more (a count of two digits)
\* followed by a run of another kind
CigarRoundTripWitness ==
    /\ CigarRun
    /\ Len(work.out.runs) = 2
    /\ work.out.runs[1][1] >= 10
    /\ Len(work.out.cigar) >= 5

\* the D table of a search that has mapped its pattern
HasDtab(s) == srch[s].p # <<>>

\* C15 (D table shape): the D table of a search has len(p)+1 entries, none
\* negative; its extra slot, the last one, which D[-1] reads, is 0; and
\* D[-1] <= D[0] <= ... <= D[len(p)-1].
DtabMonotone ==
    \A s \in Searches :
        HasDtab(s) =>
            LET D == srch[s].dtab
                m == Len(srch[s].p)
            IN /\ Len(D) = m + 1
               /\ \A i \in 0..m : At(D, i) >= 0
               /\ At(D, m) = 0 /\ PyAt(D, -1) = 0
               /\ \A i \in (-1)..(m - 2) : PyAt(D, i) <= PyAt(D, i + 1)

\* the table of a pattern of three letters rises, and the search it guides
\* has yielded a hit
DtabMonotoneWitness ==
    \E s \in Searches :
        /\ HasDtab(s)
        /\ Len(srch[s].p) = 3
        /\ \E i \in 0..1 : At(srch[s].dtab, i) < At(srch[s].dtab, i + 1)
        /\ At(srch[s].dtab, 2) >= 1
        /\ hits[s] # <<>>

Min3(a, b, c) ==
    IF a <= b /\ a <= c THEN a ELSE IF b <= c THEN b ELSE c

\* the least number of substitutions, insertions and deletions that turn
\* the string u into the string w
RECURSIVE EditDistance(_, _)
EditDistance(u, w) ==
    IF u = <<>> THEN Len(w)
    ELSE IF w = <<>> THEN Len(u)
    ELSE Min3(EditDistance(Tail(u), Tail(w))
                  + (IF Head(u) = Head(w) THEN 0 ELSE 1),
              EditDistance(Tail(u), w) + 1,
              EditDistance(u, Tail(w)) + 1)

\* the least number of edits with which u aligns to a substring of x
MinEdits(u, x) ==
    LET ds == {EditDistance(u, SubSeq(x, lo, hi)) :
                 lo \in 1..(Len(x) + 1), hi \in 0..Len(x)}
    IN CHOOSE d \in ds : \A e \in ds : d <= e

\* C17 (D table is a lower bound): D[i] is at most the least number of edits
\* with which the prefix p[0..i] aligns to a substring of the text; and a
\* node the search prunes because max_edits < D[pos] has fewer edits left
\* than any alignment of the rest of the pattern needs.
DtabLowerBound ==
    \A s \in Searches :
        /\ (HasDtab(s) /\ srch[s].edits_idx = 0 /\ srch[s].state = "REC")
              => \A i \in 0..(Len(P_(s)) - 1) :
                    At(srch[s].dtab, i) <= MinEdits(SubSeq(P_(s), 1, i + 1), X(s))
        /\ (/\ srch[s].status = "running" /\ srch[s].state = "REC"
            /\ srch[s].left # srch[s].right
            /\ srch[s].pos >= 0
            /\ srch[s].max_edits < PyAt(srch[s].dtab, srch[s].pos))
              => srch[s].max_edits
                    < MinEdits(SubSeq(P_(s), 1, srch[s].pos + 1), X(s))

\* a node with a non-empty interval and edits left is pruned by the D table
DtabLowerBoundWitness ==
    \E s \in Searches :
        /\ srch[s].status = "running" /\ srch[s].state = "REC"
        /\ srch[s].left # srch[s].right
        /\ srch[s].pos >= 1
        /\ srch[s].max_edits >= 0
        /\ srch[s].max_edits < PyAt(srch[s].dtab, srch[s].pos)
        /\ PyAt(srch[s].dtab, srch[s].pos)
              = MinEdits(SubSeq(P_(s), 1, srch[s].pos + 1), X(s))

\* C16 (the state machine refines the recursion): for a search of a
\* non-empty pattern over the text's alphabet, the n-th hit it is about to
\* yield is the n-th hit of the recursive search, with the same position,
\* CIGAR and operation path (the path being the buffer prefix
\* edits[0..edits_idx) at the yield), and a finished search has yielded as
\* many hits as the recursive search has.
IterativeRefines ==
    \A s \in Searches :
        /\ srch[s].status = "yielding" =>
              LET rec == recursive_search(Tables(s), P_(s), K(s))
                  n == Len(hits[s]) + 1
              IN /\ n <= Len(rec)
                 /\ Yielded(Tables(s), srch[s]).pos = rec[n].pos
                 /\ Yielded(Tables(s), srch[s]).cigar = rec[n].cigar
                 /\ SubSeq(srch[s].edits, 1, srch[s].edits_idx) = rec[n].ops
        /\ (Returned(s) /\ HasDtab(s)) =>
              Len(hits[s]) = Len(recursive_search(Tables(s), P_(s), K(s)))

\* a finished search whose hits came from paths of different lengths, an
\* earlier hit from a longer path than a later one (the buffer was rewound)
IterativeRefinesWitness ==
    \E s \in Searches :
        /\ Returned(s)
        /\ \E i, j \in 1..Len(hits[s]) :
              /\ i < j
              /\ Len(hits[s][i].path) > Len(hits[s][j].path)
              /\ \E c \in 1..Len(hits[s][i].path) : hits[s][i].path[c][1] = "D"

EqualLmsRun == work.fn = "equal_lms" /\ work.done

\* the last position of the LMS substring that starts at the LMS position
\* i: the next LMS position, or i itself for the sentinel
LmsEnd(is_s, i) ==
    IF i = Len(is_s) - 1 THEN i
    ELSE CHOOSE e \in (i + 1)..(Len(is_s) - 1) :
            /\ is_lms(is_s, e)
            /\ \A d \in (i + 1)..(e - 1) : ~is_lms(is_s, d)

\* the LMS substrings at i and j have the same length and, at each of their
\* first len positions, the same character and the same S/L class
LmsAgree(x, is_s, i, j, len) ==
    /\ LmsEnd(is_s, i) - i = LmsEnd(is_s, j) - j
    /\ \A d \in 0..(len - 1) :
          /\ At(x, i + d) = At(x, j + d)
          /\ At(is_s, i + d) = At(is_s, j + d)

\* C18 (LMS naming), as claimed: equal_lms(x, is_s, i, j) is true if and
\* only if the LMS substrings at i and j have identical length, identical
\* characters at every position and identical S/L class at every position.
EqualLmsIdentical ==
    EqualLmsRun =>
        (work.out <=> LmsAgree(work.x, work.is_s, work.i, work.j,
                               LmsEnd(work.is_s, work.i) - work.i + 1))

\* what equal_lms computes: identical length, and identical characters and
\* classes at every position but the last one of the two substrings
EqualLmsButLast ==
    EqualLmsRun =>
        (work.out <=> (work.i = work.j
                       \/ LmsAgree(work.x, work.is_s, work.i, work.j,
                                   LmsEnd(work.is_s, work.i) - work.i)))

\* the next step of search s writes edits[edits_idx]
Writes(s) ==
    /\ srch[s].status = "running"
    /\ \/ srch[s].state = "MATCH" /\ srch[s].a # AlphaLen(Tables(s).alpha)
       \/ srch[s].state = "INSERT"
       \/ srch[s].state = "DELETE" /\ ~NoDelete(Tables(s), srch[s])

\* C19 (edit buffer bound): the buffer of a search has len(p) + max_edits
\* slots; every write of MATCH, INSERT or DELETE is at an index
\* 0 <= edits_idx < len(p) + max_edits, at every hit
\* edits_idx <= len(p) + max_edits, and no write raises IndexError.
EditBufferBound ==
    \A s \in Searches :
        /\ srch[s].status # "IndexError"
        /\ HasDtab(s) =>
              /\ Len(srch[s].edits) = Len(P_(s)) + K(s)
              /\ Writes(s) => /\ 0 <= srch[s].edits_idx
                              /\ srch[s].edits_idx < Len(srch[s].edits)
              /\ srch[s].status = "yielding"
                    => srch[s].edits_idx <= Len(srch[s].edits)

\* a hit that fills the whole buffer: every letter matched and the whole
\* budget spent on deletions
EditBufferBoundWitness ==
    \E s \in Searches :
        /\ srch[s].status = "yielding"
        /\ K(s) >= 1
        /\ srch[s].edits_idx = Len(P_(s)) + K(s)

\* C20 (no identical hit twice): a search never yields the same pair
\* (pos, cigar) twice; the hit it is about to yield differs from every hit
\* it has yielded (a position may come again, with another CIGAR).
NoDuplicateHit ==
    \A s \in Searches :
        srch[s].status = "yielding" =>
            \A i \in 1..Len(hits[s]) :
                ~(/\ hits[s][i].pos = Yielded(Tables(s), srch[s]).pos
                  /\ hits[s][i].cigar = Yielded(Tables(s), srch[s]).cigar)

\* a position yielded a second time with another CIGAR, after two hits of
\* one CIGAR at different positions
NoDuplicateHitWitness ==
    \E s \in Searches :
        /\ \E i, j \in 1..Len(hits[s]) :
              /\ i < j
              /\ hits[s][i].pos = hits[s][j].pos
              /\ hits[s][i].cigar # hits[s][j].cigar
        /\ \E i, j \in 1..Len(hits[s]) :
              /\ i < j
              /\ hits[s][i].cigar = hits[s][j].cigar
              /\ hits[s][i].path # hits[s][j].path

====
